---- MODULE Spec2Model ----
(***************************************************************************)
(* State-machine model of excali-note: the root App (notebook collection,  *)
(* selection, startup migration, persist effect) and the NotebookEditor    *)
(* (page list operations, active index, debounced edit commit).            *)
(*                                                                         *)
(* Conventions                                                             *)
(*  - A page id `page-<n>` is the pair <<"page", n>>; a notebook id        *)
(*    `notebook-<t>` is the pair <<"notebook", t>>.                        *)
(*  - An optional field (Page.appState as found in legacy data, Page.files)*)
(*    is a sequence: <<>> when undefined, <<v>> when it holds v.           *)
(*  - A storage item is a record [kind, json]: kind "none" (getItem gives  *)
(*    null), "garbage" (text JSON.parse rejects) or "text" (valid JSON     *)
(*    whose parsed value is json).                                         *)
(*  - One action is one event-loop task: the handler, the React render it  *)
(*    schedules and the effects of that render (persist effect, debounce   *)
(*    cleanup).                                                            *)
(***************************************************************************)
EXTENDS Integers, Sequences, FiniteSets, TLC

\* ------------------------------------------------------------------ bounds
MaxPages == 3
MaxNotebooks == 2
MaxElems == 1
MaxTicks == 4
MaxBurst == 2
MaxQuotaFailures == 1
AppMaxPages == 2
AppMaxNotebooks == 1
AppMaxTicks == 3
MaxPreviewElems == 2

\* ------------------------------------------------------- program constants
DebounceWait == 200

PREVIEW_WIDTH == 200
THUMBNAIL_WIDTH == 240
ReferenceWidth == 595

\* element.fontSize || 20
DefaultFontSize == 20

\* the clock is read in steps of half a debounce window
TickMs == DebounceWait \div 2
MaxTime == MaxTicks * TickMs
AppMaxTime == AppMaxTicks * TickMs

Shapes == {"rectangle"}
FileIds == {"f1"}
Names == {"A"}

Null == <<"null">>

DefaultAppState == [viewBackgroundColor |-> "#ffffff"]

\* the view state the drawing surface reports with a change: the canvas
\* background is one the user picked
NotifiedAppStates == {[viewBackgroundColor |-> "#ffc9c9"]}

\* element lists the drawing surface can hold
ElementLists == UNION {[1..n -> Shapes] : n \in 0..MaxElems}

\* the file-attachment mapping the drawing surface reports with a change
FileMaps == {FileIds}

PageId(n) == <<"page", n>>

NotebookId(t) == <<"notebook", t>>

INITIAL_PAGE ==
  [id |-> PageId(1), elements |-> <<>>, files |-> <<{}>>,
   appState |-> <<DefaultAppState>>]

\* ------------------------------------------------------------ pure helpers
Min(a, b) == IF a <= b THEN a ELSE b

\* Array.prototype.findIndex on page ids, 0-based, -1 when absent
FindIndex(pages, id) ==
  IF \E i \in 1..Len(pages) : pages[i].id = id
    THEN (CHOOSE i \in 1..Len(pages) :
            /\ pages[i].id = id
            /\ \A j \in 1..(i - 1) : pages[j].id # id) - 1
    ELSE -1

RECURSIVE FilterOutId(_, _)
\* Array.prototype.filter(x => x.id !== id)
FilterOutId(xs, id) ==
  IF xs = <<>> THEN <<>>
  ELSE IF Head(xs).id = id THEN FilterOutId(Tail(xs), id)
  ELSE <<Head(xs)>> \o FilterOutId(Tail(xs), id)

\* notebooks.find(nb => nb.id === id): the 1-based position, 0 when absent
FindNotebook(nbs, id) ==
  IF \E i \in 1..Len(nbs) : nbs[i].id = id
    THEN CHOOSE i \in 1..Len(nbs) :
            /\ nbs[i].id = id
            /\ \A j \in 1..(i - 1) : nbs[j].id # id
    ELSE 0

\* ----------------------------------------------------------- serialisation
\* JSON.stringify of a page: properties whose value is undefined are omitted
PageToJSON(p) ==
  [k \in {"id", "elements"} \cup {f \in {"appState", "files"} : p[f] # <<>>} |->
     IF k \in {"appState", "files"} THEN p[k][1] ELSE p[k]]

\* JSON.parse of a page object: a missing property reads as undefined
PageFromJSON(j) ==
  [id |-> j.id, elements |-> j.elements,
   appState |-> IF "appState" \in DOMAIN j THEN <<j.appState>> ELSE <<>>,
   files |-> IF "files" \in DOMAIN j THEN <<j.files>> ELSE <<>>]

PagesToJSON(pages) == [i \in 1..Len(pages) |-> PageToJSON(pages[i])]

PagesFromJSON(js) == [i \in 1..Len(js) |-> PageFromJSON(js[i])]

NotebookToJSON(nb) ==
  [id |-> nb.id, name |-> nb.name, pages |-> PagesToJSON(nb.pages),
   createdAt |-> nb.createdAt, updatedAt |-> nb.updatedAt]

NotebookFromJSON(j) ==
  [id |-> j.id, name |-> j.name, pages |-> PagesFromJSON(j.pages),
   createdAt |-> j.createdAt, updatedAt |-> j.updatedAt]

\* JSON.stringify(notebooks)
Stringify(nbs) ==
  [kind |-> "text", json |-> [i \in 1..Len(nbs) |-> NotebookToJSON(nbs[i])]]

\* JSON.parse(stored) for a stored notebook collection
ParseNotebooks(item) == [i \in 1..Len(item.json) |-> NotebookFromJSON(item.json[i])]

NoItem == [kind |-> "none", json |-> <<>>]

Garbage == [kind |-> "garbage", json |-> <<>>]

\* JSON.parse throws on this item
ParseThrows(item) == item.kind = "garbage"

\* ------------------------------------------------------------------- state
VARIABLES
  sessionLegacy,       \* sessionStorage item 'excali_note'
  localStore,          \* localStorage item STORAGE_KEY
  phase,               \* "boot" | "running" | "crashed" (a render threw)
  notebooks,           \* App state: the notebook collection
  selectedNotebookId,  \* App state: Null or a notebook id
  currentPageIndex,    \* NotebookEditor state, 0-based
  scene,               \* element list held by the mounted drawing surface
  handleChange,        \* the current debounced callback: closure and timer
  stale,               \* debounced callbacks of earlier renders still timed
  now,                 \* the clock Date.now() reads, in ms
  lastWrite,           \* outcome of the latest persist effect
  quotaBudget,         \* how many more localStorage.setItem calls may throw
  burst,               \* history: the current run of change notifications
  last,                \* history: the operation that produced this state
  previewOf,           \* the component a preview canvas belongs to
  canvas,              \* draw calls on that canvas since it was last cleared
  decoding,            \* image decodes started and not yet completed
  depicted,            \* <<page>> of the latest draw, <<>> before it
  drawRaised           \* the latest draw threw

\* the preview canvas
previewVars == <<previewOf, canvas, decoding, depicted, drawRaised>>

\* the App, its storage and the editor
appVars == <<sessionLegacy, localStore, phase, notebooks, selectedNotebookId,
             currentPageIndex, scene, handleChange, stale, now, lastWrite,
             quotaBudget, burst, last>>

vars == <<sessionLegacy, localStore, phase, notebooks, selectedNotebookId,
          currentPageIndex, scene, handleChange, stale, now, lastWrite,
          quotaBudget, burst, last, previewOf, canvas, decoding, depicted,
          drawRaised>>

\* page arrays a prior single-notebook version can have left in the session
LegacyPageArrays ==
  { <<[id |-> PageId(1), elements |-> <<>>]>>,
    <<[id |-> PageId(1), elements |-> <<"rectangle">>,
       appState |-> DefaultAppState, files |-> {}],
      [id |-> PageId(2), elements |-> <<>>, appState |-> DefaultAppState]>> }

LegacyItems ==
  {NoItem, Garbage} \cup {[kind |-> "text", json |-> a] : a \in LegacyPageArrays}

\* notebook collections an earlier session can have stored
StoredCollections ==
  { <<>>,
    <<[id |-> NotebookId(0), name |-> "A", pages |-> <<INITIAL_PAGE>>,
       createdAt |-> 0, updatedAt |-> 0]>> }

StoredItems == {NoItem, Garbage} \cup {Stringify(c) : c \in StoredCollections}

\* the debounced function with no timer running, closed over a render's values
Debounced(pages, idx, nbs, sel) ==
  [pages |-> pages, currentPageIndex |-> idx, notebooks |-> nbs,
   selectedNotebookId |-> sel,
   timerId |-> -1, lastArgs |-> <<>>, lastCallTime |-> -1]

\* no editor is mounted: there is no debounced function
NoHandler == Debounced(<<>>, 0, <<>>, Null)

NoBurst ==
  [n |-> 0, final |-> <<>>, rapid |-> TRUE, commits |-> 0, writes |-> 0,
   done |-> FALSE, equal |-> FALSE, first |-> -1, due |-> -1, torn |-> FALSE]

\* no preview canvas is followed
NoCanvas ==
  /\ previewOf = "PagePreview"
  /\ canvas = <<>>
  /\ decoding = {}
  /\ depicted = <<>>
  /\ drawRaised = FALSE

\* the operation that ran last and the branch of its code it took
Op(name, effect) == [name |-> name, effect |-> effect]

Init ==
  /\ sessionLegacy \in LegacyItems
  /\ localStore \in StoredItems
  /\ phase = "boot"
  /\ notebooks = <<>>
  /\ selectedNotebookId = Null
  /\ currentPageIndex = 0
  /\ scene = <<>>
  /\ handleChange = NoHandler
  /\ stale = {}
  /\ now = 0
  /\ lastWrite = "none"
  /\ quotaBudget \in 0..MaxQuotaFailures
  /\ burst = NoBurst
  /\ last = Op("init", "")
  /\ NoCanvas

\* --------------------------------------------------------- derived values
\* const selectedNotebook = notebooks.find(nb => nb.id === selectedNotebookId)
selectedNotebook(nbs, sel) == FindNotebook(nbs, sel)

EditorMounted ==
  phase = "running" /\ selectedNotebook(notebooks, selectedNotebookId) # 0

\* the `pages` prop of the mounted editor
EditorPages(nbs, sel) == nbs[selectedNotebook(nbs, sel)].pages

pages == EditorPages(notebooks, selectedNotebookId)

\* NotebookEditor's render reads currentPage.elements: pages[i] of an index
\* outside the array is undefined and the read throws
EditorThrows(nbs, sel, idx) ==
  /\ selectedNotebook(nbs, sel) # 0
  /\ idx + 1 \notin 1..Len(EditorPages(nbs, sel))

\* values successive Date.now() calls of one handler can return
DateNow == {t \in {now, now + TickMs} : t <= MaxTime}

\* whether a localStorage.setItem call may throw QuotaExceededError now
QuotaChoices == IF quotaBudget > 0 THEN BOOLEAN ELSE {FALSE}

\* ------------------------------------------------------------ App: startup
\* an initializer whose migration leaves the legacy key in place
InitialNotebooksLegacyKept(legacy, stored, quota, t1, t2, t3) ==
  LET migratedNotebook ==
        [id |-> NotebookId(t1), name |-> "My Notebook",
         pages |-> PagesFromJSON(legacy.json),
         createdAt |-> t2, updatedAt |-> t3]
      loaded ==
        IF stored.kind # "none" /\ ~ParseThrows(stored)
          THEN ParseNotebooks(stored) ELSE <<>>
  IN IF legacy.kind # "none" /\ ~ParseThrows(legacy) /\ ~quota
       THEN [notebooks |-> <<migratedNotebook>>,
             legacy |-> legacy,
             stored |-> Stringify(<<migratedNotebook>>),
             migrated |-> TRUE, threw |-> FALSE]
       ELSE [notebooks |-> loaded, legacy |-> legacy, stored |-> stored,
             migrated |-> FALSE, threw |-> FALSE]

\* an initializer that parses the stored text outside a try block
InitialNotebooksParseUncaught(legacy, stored, quota, t1, t2, t3) ==
  LET migratedNotebook ==
        [id |-> NotebookId(t1), name |-> "My Notebook",
         pages |-> PagesFromJSON(legacy.json),
         createdAt |-> t2, updatedAt |-> t3]
  IN IF legacy.kind # "none" /\ ~ParseThrows(legacy) /\ ~quota
       THEN [notebooks |-> <<migratedNotebook>>,
             legacy |-> NoItem,
             stored |-> Stringify(<<migratedNotebook>>),
             migrated |-> TRUE, threw |-> FALSE]
       ELSE [notebooks |-> IF stored.kind = "text" THEN ParseNotebooks(stored)
                           ELSE <<>>,
             legacy |-> legacy, stored |-> stored,
             migrated |-> FALSE, threw |-> ParseThrows(stored)]

\* an initializer that starts empty when a migration was tried and failed
InitialNotebooksNoFallback(legacy, stored, quota, t1, t2, t3) ==
  LET migratedNotebook ==
        [id |-> NotebookId(t1), name |-> "My Notebook",
         pages |-> PagesFromJSON(legacy.json),
         createdAt |-> t2, updatedAt |-> t3]
  IN IF legacy.kind # "none" /\ ~ParseThrows(legacy) /\ ~quota
       THEN [notebooks |-> <<migratedNotebook>>, legacy |-> NoItem,
             stored |-> Stringify(<<migratedNotebook>>),
             migrated |-> TRUE, threw |-> FALSE]
       ELSE [notebooks |-> IF legacy.kind = "none" /\ stored.kind = "text"
                             THEN ParseNotebooks(stored) ELSE <<>>,
             legacy |-> legacy, stored |-> stored,
             migrated |-> FALSE, threw |-> FALSE]

\* the useState initializer of App: legacy migration, else load, else []
\* Gives the initial collection and what the two storages hold afterwards.
\* quota: localStorage.setItem throws; t1, t2, t3: the three Date.now() reads
\* threw: an exception left the initializer (both try blocks catch theirs)
InitialNotebooks(legacy, stored, quota, t1, t2, t3) ==
  LET migratedNotebook ==
        [id |-> NotebookId(t1), name |-> "My Notebook",
         pages |-> PagesFromJSON(legacy.json),
         createdAt |-> t2, updatedAt |-> t3]
      loaded ==
        IF stored.kind # "none" /\ ~ParseThrows(stored)
          THEN ParseNotebooks(stored) ELSE <<>>
  IN IF legacy.kind # "none" /\ ~ParseThrows(legacy) /\ ~quota
       THEN [notebooks |-> <<migratedNotebook>>,
             legacy |-> NoItem,
             stored |-> Stringify(<<migratedNotebook>>),
             migrated |-> TRUE, threw |-> FALSE]
       ELSE [notebooks |-> loaded, legacy |-> legacy, stored |-> stored,
             migrated |-> FALSE, threw |-> FALSE]

\* a persist effect that writes only the notebooks updated last
PersistEffectUpdatedOnly(stored, nbs, quota) ==
  IF quota THEN stored
  ELSE Stringify(SelectSeq(nbs, LAMBDA nb :
                   \A i \in 1..Len(nbs) : nbs[i].updatedAt <= nb.updatedAt))

\* a persist effect whose failed write loses the stored item
PersistEffectFailureClears(stored, nbs, quota) ==
  IF quota THEN NoItem ELSE Stringify(nbs)

\* the persist effect: try { localStorage.setItem(KEY, JSON.stringify(nbs)) }
PersistEffect(stored, nbs, quota) ==
  IF quota THEN stored ELSE Stringify(nbs)

\* App mounts: initializer, first render (dashboard), persist effect
Startup ==
  /\ phase = "boot"
  /\ \E quota1 \in QuotaChoices, quota2 \in QuotaChoices, t1 \in DateNow, t2 \in DateNow, t3 \in DateNow :
       /\ t1 <= t2 /\ t2 <= t3
       /\ LET r == InitialNotebooks(sessionLegacy, localStore, quota1, t1, t2, t3)
              \* the migration's setItem is reached only with parsable legacy data
              threw1 == quota1 /\ sessionLegacy.kind = "text"
              used == (IF threw1 THEN 1 ELSE 0) + (IF quota2 THEN 1 ELSE 0)
          IN /\ r.migrated \/ t3 = now
             /\ quota1 => threw1
             /\ used <= quotaBudget
             /\ quotaBudget' = quotaBudget - used
             /\ phase' = IF r.threw THEN "crashed" ELSE "running"
             /\ notebooks' = r.notebooks
             /\ sessionLegacy' = r.legacy
             /\ localStore' = PersistEffect(r.stored, r.notebooks, quota2)
             /\ now' = IF r.migrated THEN t3 ELSE now
             /\ lastWrite' = IF quota2 THEN "failed" ELSE "ok"
             /\ last' = Op("startup", IF r.migrated THEN "migrated" ELSE "loaded")
  /\ selectedNotebookId' = Null
  /\ currentPageIndex' = 0
  /\ scene' = <<>>
  /\ handleChange' = NoHandler
  /\ stale' = {}
  /\ burst' = NoBurst
  /\ UNCHANGED previewVars

\* the browser tab is reloaded: memory and timers are gone, storage stays
Reload ==
  /\ phase # "boot"
  /\ phase' = "boot"
  /\ notebooks' = <<>>
  /\ selectedNotebookId' = Null
  /\ currentPageIndex' = 0
  /\ scene' = <<>>
  /\ handleChange' = NoHandler
  /\ stale' = {}
  /\ lastWrite' = "none"
  /\ burst' = NoBurst
  /\ last' = Op("reload", "")
  /\ UNCHANGED <<sessionLegacy, localStore, now, quotaBudget, previewVars>>

\* ------------------------------------------------------- lodash debounce
\* lodash debounce(func, 200), trailing edge: shouldInvoke(time)
shouldInvoke(h, time) ==
  \/ h.lastCallTime = -1
  \/ time - h.lastCallTime >= DebounceWait
  \/ time - h.lastCallTime < 0

\* a debounce that keeps the arguments of the first call of a run
debouncedFirstArgs(h, args, time) ==
  [h EXCEPT !.lastArgs = IF h.timerId = -1 THEN <<args>> ELSE h.lastArgs,
            !.lastCallTime = time,
            !.timerId = IF h.timerId = -1 THEN time + DebounceWait ELSE h.timerId]

\* lodash debounced(...args): record the call and start the timer if none runs
debounced(h, args, time) ==
  [h EXCEPT !.lastArgs = <<args>>,
            !.lastCallTime = time,
            !.timerId = IF h.timerId = -1 THEN time + DebounceWait ELSE h.timerId]

\* lodash cancel(), run by the cleanup effect of the render that made h
cancel(h) == [h EXCEPT !.timerId = -1, !.lastArgs = <<>>, !.lastCallTime = -1]

\* ------------------------------------------------------------- re-render
\* React processes the state updates of one task: App and, when a notebook
\* is selected, NotebookEditor render with the new values; then the effects
\* run.  setNb: setNotebooks was called (the persist effect's dependency
\* changed).  A render that throws unmounts the tree and runs no effect of
\* that render.
RenderCore(newNbs, newSel, newIdx, setNb, quota) ==
  LET wasMounted == EditorMounted
      mounted == selectedNotebook(newNbs, newSel) # 0
      throws == EditorThrows(newNbs, newSel, newIdx)
      remount == ~wasMounted \/ newIdx # currentPageIndex
      persists == setNb /\ ~throws
  IN /\ notebooks' = newNbs
     /\ selectedNotebookId' = newSel
     /\ currentPageIndex' = newIdx
     /\ phase' = IF throws THEN "crashed" ELSE phase
     /\ quota => persists
     /\ localStore' = IF persists
                        THEN PersistEffect(localStore, newNbs, quota)
                        ELSE localStore
     /\ lastWrite' = IF persists
                       THEN (IF quota THEN "failed" ELSE "ok")
                       ELSE lastWrite
     /\ quotaBudget' = IF quota THEN quotaBudget - 1 ELSE quotaBudget
     \* key = `excalidraw-${currentPageIndex}`: the drawing surface is
     \* re-created from initialData only when the key changes
     /\ scene' = IF mounted /\ ~throws
                   THEN (IF remount
                           THEN EditorPages(newNbs, newSel)[newIdx + 1].elements
                           ELSE scene)
                   ELSE <<>>

\* a cleanup that does not cancel
cleanupWithoutCancel(h) == h

\* the cleanup of NotebookEditor's effect on [handleChange]: it runs when a
\* render made a new debounced function and when the editor unmounts
cleanup(h) == cancel(h)

\* useMemo's deps (pages, currentPageIndex, onPagesChange) changed or the
\* editor (un)mounted: the render makes a new debounced function, and the
\* cleanup runs on the previous one, oldH.  A previous one that keeps a timer
\* lives on in oldStale.
Effects(oldH, oldStale, newNbs, newSel, newIdx) ==
  LET mounted == selectedNotebook(newNbs, newSel) # 0
      throws == EditorThrows(newNbs, newSel, newIdx)
      left == cleanup(oldH)
  IN /\ handleChange' = IF mounted /\ ~throws
                          THEN Debounced(EditorPages(newNbs, newSel), newIdx,
                                         newNbs, newSel)
                          ELSE NoHandler
     /\ stale' = IF left.timerId # -1 THEN oldStale \cup {left} ELSE oldStale

Rerender(newNbs, newSel, newIdx, setNb, quota) ==
  /\ RenderCore(newNbs, newSel, newIdx, setNb, quota)
  /\ Effects(handleChange, stale, newNbs, newSel, newIdx)

\* a handler returned early: no state was set, nothing renders
NoRender ==
  UNCHANGED <<localStore, phase, notebooks, selectedNotebookId,
              currentPageIndex, scene, handleChange, stale, lastWrite,
              quotaBudget, burst>>

\* a handlePagesChange that stamps every notebook
handlePagesChangeStampsAll(nbs, sel, newPages, t) ==
  IF sel = Null THEN nbs
  ELSE [i \in 1..Len(nbs) |->
          IF nbs[i].id = sel
            THEN [nbs[i] EXCEPT !.pages = newPages, !.updatedAt = t]
            ELSE [nbs[i] EXCEPT !.updatedAt = t]]

\* handlePagesChange of the App render whose state was (nbs, sel)
handlePagesChange(nbs, sel, newPages, t) ==
  IF sel = Null THEN nbs
  ELSE [i \in 1..Len(nbs) |->
          IF nbs[i].id = sel
            THEN [nbs[i] EXCEPT !.pages = newPages, !.updatedAt = t]
            ELSE nbs[i]]

\* -------------------------------------------------------- App: dashboard
Dashboard == phase = "running" /\ ~EditorMounted

\* a delete that keeps only the notebooks before the deleted one
handleNotebookDeleteResultTruncates(nbs, id) ==
  SubSeq(nbs, 1, FindNotebook(nbs, id) - 1)

\* Array.prototype.filter(nb => nb.id !== id) on the collection
handleNotebookDeleteResult(nbs, id) == FilterOutId(nbs, id)

\* Dashboard card clicked: onNotebookSelect(notebook.id)
NotebookSelect ==
  /\ Dashboard
  /\ \E i \in 1..Len(notebooks) :
       Rerender(notebooks, notebooks[i].id, 0, FALSE, FALSE)
  /\ last' = Op("select", "")
  /\ burst' = NoBurst
  /\ UNCHANGED <<sessionLegacy, now, previewVars>>

\* onBack: setSelectedNotebookId(null); the editor unmounts
Back ==
  /\ EditorMounted
  /\ Rerender(notebooks, Null, 0, FALSE, FALSE)
  /\ burst' = IF handleChange.timerId # -1
                THEN [burst EXCEPT !.torn = TRUE] ELSE NoBurst
  /\ last' = Op("back", "")
  /\ UNCHANGED <<sessionLegacy, now, previewVars>>

\* handleNotebookCreate(name).  The create form is submitted by a person:
\* the stamp of a new notebook is later than the stamp in any existing id.
handleNotebookCreate ==
  /\ Dashboard
  /\ Len(notebooks) < MaxNotebooks
  /\ \E name \in Names, quota \in QuotaChoices, t1 \in DateNow, t2 \in DateNow, t3 \in DateNow :
       /\ t1 <= t2 /\ t2 <= t3
       /\ \A i \in 1..Len(notebooks) : notebooks[i].id[2] < t1
       /\ LET newNotebook ==
                [id |-> NotebookId(t1), name |-> name,
                 pages |-> <<INITIAL_PAGE>>,
                 createdAt |-> t2, updatedAt |-> t3]
          IN Rerender(Append(notebooks, newNotebook), selectedNotebookId,
                      currentPageIndex, TRUE, quota)
       /\ now' = t3
  /\ last' = Op("create", "")
  /\ burst' = NoBurst
  /\ UNCHANGED <<sessionLegacy, previewVars>>

\* handleNotebookDelete(notebookId), after the confirm dialog
handleNotebookDelete ==
  /\ Dashboard
  /\ \E i \in 1..Len(notebooks), quota \in QuotaChoices :
       LET notebookId == notebooks[i].id
       IN Rerender(handleNotebookDeleteResult(notebooks, notebookId),
                   IF selectedNotebookId = notebookId
                     THEN Null ELSE selectedNotebookId,
                   currentPageIndex, TRUE, quota)
  /\ last' = Op("deleteNotebook", "")
  /\ burst' = NoBurst
  /\ UNCHANGED <<sessionLegacy, now, previewVars>>

\* ---------------------------------------------------------- NotebookEditor
\* ids a page handler can be called with: those listed, and one that is not
PageIdArgs == {pages[i].id : i \in 1..Len(pages)} \cup {PageId(0)}

\* the add-page button's onClick: the pages it hands to onPagesChange
AddPageResult(ps) ==
  Append(ps, [id |-> PageId(Len(ps) + 1), elements |-> <<>>,
              appState |-> <<DefaultAppState>>, files |-> <<>>])

AddPage ==
  /\ EditorMounted
  /\ Len(pages) < MaxPages
  /\ \E quota \in QuotaChoices :
       Rerender(handlePagesChange(notebooks, selectedNotebookId,
                                  AddPageResult(pages), now),
                selectedNotebookId, currentPageIndex, TRUE, quota)
  /\ burst' = NoBurst
  /\ last' = Op("addPage", "")
  /\ UNCHANGED <<sessionLegacy, now, previewVars>>

\* handleDelete without its guard on the last page
handleDeleteResultUnguarded(ps, cur, deletionId) ==
  LET deletionPageIndex == FindIndex(ps, deletionId)
      newPages == FilterOutId(ps, deletionId)
  IN IF deletionPageIndex = -1
       THEN [changed |-> FALSE, pages |-> ps, index |-> cur, effect |-> "absent"]
     ELSE [changed |-> TRUE, pages |-> newPages,
           index |-> IF deletionPageIndex < cur THEN cur - 1
                     ELSE IF deletionPageIndex = cur
                       THEN Min(cur, Len(newPages) - 1)
                     ELSE cur,
           effect |-> IF Len(ps) <= 1 THEN "guarded" ELSE "active"]

\* handleDelete(deletionId): [changed, pages, index] it leaves behind
handleDeleteResult(ps, cur, deletionId) ==
  LET deletionPageIndex == FindIndex(ps, deletionId)
      newPages == FilterOutId(ps, deletionId)
  IN IF Len(ps) <= 1
       THEN [changed |-> FALSE, pages |-> ps, index |-> cur, effect |-> "guarded"]
     ELSE IF deletionPageIndex = -1
       THEN [changed |-> FALSE, pages |-> ps, index |-> cur, effect |-> "absent"]
     ELSE IF deletionPageIndex < cur
       THEN [changed |-> TRUE, pages |-> newPages, index |-> cur - 1,
             effect |-> "before"]
     ELSE IF deletionPageIndex = cur
       THEN [changed |-> TRUE, pages |-> newPages,
             index |-> Min(cur, Len(newPages) - 1), effect |-> "active"]
     ELSE [changed |-> TRUE, pages |-> newPages, index |-> cur,
           effect |-> "after"]

\* one call handleDelete(deletionId), from a preview's delete button
handleDeleteCall(deletionId) ==
  LET r == handleDeleteResult(pages, currentPageIndex, deletionId)
  IN /\ last' = Op("handleDelete", r.effect)
     /\ IF r.changed
          THEN /\ \E quota \in QuotaChoices :
                    Rerender(handlePagesChange(notebooks, selectedNotebookId,
                                               r.pages, now),
                             selectedNotebookId, r.index, TRUE, quota)
               /\ burst' = NoBurst
          ELSE NoRender
     /\ UNCHANGED <<sessionLegacy, now, previewVars>>

handleDelete ==
  /\ EditorMounted
  /\ \E deletionId \in PageIdArgs : handleDeleteCall(deletionId)

\* handlePageMove that swaps the pages and leaves the active index alone
handlePageMoveResultIndexKept(ps, cur, pageId, direction) ==
  LET pageIndex == FindIndex(ps, pageId)
      newIndex == IF direction = "up" THEN pageIndex - 1 ELSE pageIndex + 1
  IN IF pageIndex = -1 \/ newIndex < 0 \/ newIndex >= Len(ps)
       THEN [changed |-> FALSE, pages |-> ps, index |-> cur, effect |-> "edge"]
     ELSE [changed |-> TRUE,
           pages |-> [ps EXCEPT ![pageIndex + 1] = ps[newIndex + 1],
                                ![newIndex + 1] = ps[pageIndex + 1]],
           index |-> cur, effect |-> "other"]

\* handlePageMove(pageId, direction): [changed, pages, index] it leaves behind
handlePageMoveResult(ps, cur, pageId, direction) ==
  LET pageIndex == FindIndex(ps, pageId)
      newIndex == IF direction = "up" THEN pageIndex - 1 ELSE pageIndex + 1
      newPages == [ps EXCEPT ![pageIndex + 1] = ps[newIndex + 1],
                             ![newIndex + 1] = ps[pageIndex + 1]]
  IN IF pageIndex = -1
       THEN [changed |-> FALSE, pages |-> ps, index |-> cur, effect |-> "absent"]
     ELSE IF newIndex < 0 \/ newIndex >= Len(ps)
       THEN [changed |-> FALSE, pages |-> ps, index |-> cur, effect |-> "edge"]
     ELSE IF pageIndex = cur
       THEN [changed |-> TRUE, pages |-> newPages, index |-> newIndex,
             effect |-> "moved"]
     ELSE IF newIndex = cur
       THEN [changed |-> TRUE, pages |-> newPages, index |-> pageIndex,
             effect |-> "sibling"]
     ELSE [changed |-> TRUE, pages |-> newPages, index |-> cur,
           effect |-> "other"]

\* one call handlePageMove(pageId, direction), from a preview's move button
handlePageMoveCall(pageId, direction) ==
  LET r == handlePageMoveResult(pages, currentPageIndex, pageId, direction)
  IN /\ last' = Op("handlePageMove", r.effect)
     /\ IF r.changed
          THEN /\ \E quota \in QuotaChoices :
                    Rerender(handlePagesChange(notebooks, selectedNotebookId,
                                               r.pages, now),
                             selectedNotebookId, r.index, TRUE, quota)
               /\ burst' = NoBurst
          ELSE NoRender
     /\ UNCHANGED <<sessionLegacy, now, previewVars>>

Directions == {"up", "down"}

handlePageMove ==
  /\ EditorMounted
  /\ \E pageId \in PageIdArgs, direction \in Directions :
       handlePageMoveCall(pageId, direction)

\* setCurrentPageIndex(index): React bails out when the value is unchanged
SetCurrentPageIndex(index) ==
  /\ last' = Op("setCurrentPageIndex", "")
  /\ IF index = currentPageIndex
       THEN NoRender
       ELSE /\ Rerender(notebooks, selectedNotebookId, index, FALSE, FALSE)
            /\ burst' = NoBurst
  /\ UNCHANGED <<sessionLegacy, now, previewVars>>

\* a preview in the sidebar is clicked: onClick={() => setCurrentPageIndex(index)}
SelectPage ==
  /\ EditorMounted
  /\ \E index \in 0..(Len(pages) - 1) : SetCurrentPageIndex(index)

goToNextPage ==
  /\ EditorMounted
  /\ SetCurrentPageIndex(IF currentPageIndex < Len(pages) - 1
                           THEN currentPageIndex + 1 ELSE currentPageIndex)

goToPreviousPage ==
  /\ EditorMounted
  /\ SetCurrentPageIndex(IF currentPageIndex > 0
                           THEN currentPageIndex - 1 ELSE currentPageIndex)

\* ------------------------------------------------- debounced edit commit
\* the function handed to debounce without its isEqual test
handleChangeResultUnchecked(h, args) ==
  LET i == h.currentPageIndex + 1
  IN [changed |-> TRUE,
      pages |-> [h.pages EXCEPT ![i] =
                   [elements |-> args.elements,
                    id |-> h.pages[i].id,
                    appState |-> h.pages[i].appState,
                    files |-> <<args.files>>]]]

\* a handleChange that writes the notification into the first page
handleChangeResultFirstPage(h, args) ==
  IF h.pages[h.currentPageIndex + 1].elements = args.elements
    THEN [changed |-> FALSE, pages |-> h.pages]
    ELSE [changed |-> TRUE,
          pages |-> [h.pages EXCEPT ![1] =
                       [elements |-> args.elements,
                        id |-> h.pages[h.currentPageIndex + 1].id,
                        appState |-> h.pages[h.currentPageIndex + 1].appState,
                        files |-> <<args.files>>]]]

\* the function handed to debounce: the pages it passes to onPagesChange,
\* computed from the values its render closed over
handleChangeResult(h, args) ==
  LET i == h.currentPageIndex + 1
      areElementsEqual == h.pages[i].elements = args.elements
  IN IF areElementsEqual
       THEN [changed |-> FALSE, pages |-> h.pages]
       ELSE [changed |-> TRUE,
             pages |-> [h.pages EXCEPT ![i] =
                          [elements |-> args.elements,
                           id |-> h.pages[i].id,
                           appState |-> h.pages[i].appState,
                           files |-> <<args.files>>]]]

\* the drawing surface reports a change: onChange(elements, appState, files)
\* calls the debounced handleChange
OnChange ==
  /\ EditorMounted
  /\ handleChange.timerId # -1 => burst.n < MaxBurst
  /\ \E elements \in ElementLists, appState \in NotifiedAppStates,
        files \in FileMaps :
       LET args == [elements |-> elements, appState |-> appState,
                    files |-> files]
           stored == pages[currentPageIndex + 1].elements
       IN /\ scene' = elements
          /\ handleChange' = debounced(handleChange, args, now)
          /\ burst' = IF handleChange.timerId = -1
                        THEN [NoBurst EXCEPT !.n = 1, !.final = elements,
                                             !.equal = (elements = stored),
                                             !.first = now,
                                             !.due = now + DebounceWait]
                        ELSE [burst EXCEPT
                                !.n = @ + 1, !.final = elements,
                                !.due = now + DebounceWait,
                                !.equal = (elements = stored),
                                !.rapid = @ /\ now - handleChange.lastCallTime
                                                 < DebounceWait]
  /\ last' = Op("onChange", "")
  /\ UNCHANGED <<sessionLegacy, localStore, phase, notebooks,
                 selectedNotebookId, currentPageIndex, stale, now, lastWrite,
                 quotaBudget, previewVars>>

\* lodash trailingEdge(time) around invokeFunc: the timer and the arguments
\* are cleared
trailingEdge(h) == [h EXCEPT !.timerId = -1, !.lastArgs = <<>>]

\* lodash remainingWait(time), no maxWait
remainingWait(h, time) == DebounceWait - (time - h.lastCallTime)

\* debounced functions whose timer runs: the current one and orphaned ones
Timers == {h \in {handleChange} \cup stale : h.timerId # -1}

\* lodash timerExpired(): trailing edge when the wait has elapsed since the
\* last call, otherwise the timer is restarted for the remaining wait
timerExpired ==
  /\ phase = "running"
  /\ \E h \in Timers :
       LET current == h = handleChange
           restH == IF current THEN trailingEdge(h) ELSE handleChange
           restStale == stale \ {h}
       IN
       /\ now >= h.timerId
       /\ IF shouldInvoke(h, now)
            THEN LET r == handleChangeResult(h, h.lastArgs[1])
                 IN /\ last' = Op("commit", IF r.changed THEN "changed" ELSE "equal")
                    /\ burst' = [burst EXCEPT
                                   !.done = TRUE,
                                   !.commits = IF r.changed THEN @ + 1 ELSE @,
                                   !.writes = IF r.changed THEN @ + 1 ELSE @]
                    /\ IF r.changed
                         THEN \E quota \in QuotaChoices :
                                /\ RenderCore(handlePagesChange(h.notebooks,
                                                h.selectedNotebookId, r.pages, now),
                                              selectedNotebookId, currentPageIndex,
                                              TRUE, quota)
                                /\ Effects(restH, restStale,
                                           handlePagesChange(h.notebooks,
                                             h.selectedNotebookId, r.pages, now),
                                           selectedNotebookId, currentPageIndex)
                         ELSE /\ handleChange' = restH
                              /\ stale' = restStale
                              /\ UNCHANGED <<localStore, phase, notebooks,
                                             selectedNotebookId,
                                             currentPageIndex, scene, lastWrite,
                                             quotaBudget>>
            ELSE /\ current
                 /\ handleChange' =
                      [h EXCEPT !.timerId = now + remainingWait(h, now)]
                 /\ last' = Op("timerRestart", "")
                 /\ UNCHANGED <<localStore, phase, notebooks,
                                selectedNotebookId, currentPageIndex, scene,
                                stale, lastWrite, quotaBudget, burst>>
  /\ UNCHANGED <<sessionLegacy, now, previewVars>>

\* time passes; a timer that is due runs before the clock moves on
Tick ==
  /\ now + TickMs <= MaxTime
  /\ \A h \in Timers : now < h.timerId
  /\ now' = now + TickMs
  /\ UNCHANGED <<sessionLegacy, localStore, phase, notebooks,
                 selectedNotebookId, currentPageIndex, scene, handleChange,
                 stale, lastWrite, quotaBudget, burst, last, previewVars>>

\* -------------------------------------------------------- preview canvases
\* PagePreview (editor sidebar) and NotebookCard (dashboard thumbnail) draw a
\* page onto a canvas in an effect.  A draw call is a record [op, args]; a
\* scaled number is the exact fraction [num, den]; an optional element field
\* is <<>> or <<v>>; a page's files is <<>> (undefined) or <<S>>, S the ids
\* of the files that have a dataURL.
Components == {"PagePreview", "NotebookCard"}

\* const SCALE_FACTOR = PREVIEW_WIDTH / 595 (THUMBNAIL_WIDTH / 595)
SCALE_FACTOR(component) ==
  [num |-> IF component = "PagePreview" THEN PREVIEW_WIDTH ELSE THUMBNAIL_WIDTH,
   den |-> ReferenceWidth]

\* v * SCALE_FACTOR
Scaled(v, component) ==
  [num |-> v * SCALE_FACTOR(component).num, den |-> SCALE_FACTOR(component).den]

\* an element with the geometry of the scale law's example and no other field
Element(type) ==
  [type |-> type, isDeleted |-> <<FALSE>>,
   x |-> <<100>>, y |-> <<100>>, width |-> <<50>>, height |-> <<50>>,
   points |-> <<>>, endArrowhead |-> <<>>, text |-> <<>>, fontSize |-> <<>>,
   fileId |-> <<>>]

TwoPoints == << <<0, 0>>, <<10, 0>> >>

\* a text is the sequence of its words, a word the width measureText gives it
TwoWords == <<30, 40>>

\* a text whose first two words share a line in either preview
FourWords == <<5, 5, 30, 5>>

\* elements a stored page can hold, well-formed and not
PreviewElements ==
  { Element("rectangle"),
    [Element("rectangle") EXCEPT !.isDeleted = <<TRUE>>],
    [Element("rectangle") EXCEPT !.isDeleted = <<>>],
    [Element("rectangle") EXCEPT !.height = <<>>],
    [Element("line") EXCEPT !.points = <<TwoPoints>>],
    Element("line"),
    [Element("arrow") EXCEPT !.points = <<TwoPoints>>, !.endArrowhead = <<"arrow">>],
    [Element("arrow") EXCEPT !.points = <<TwoPoints>>, !.endArrowhead = <<"triangle">>],
    [Element("arrow") EXCEPT !.points = <<TwoPoints>>],
    [Element("arrow") EXCEPT !.points = << <<>> >>, !.endArrowhead = <<"arrow">>],
    [Element("text") EXCEPT !.text = <<TwoWords>>],
    [Element("text") EXCEPT !.text = <<FourWords>>, !.fontSize = <<10>>],
    Element("text"),
    [Element("image") EXCEPT !.fileId = <<"f1">>] }

\* pages a preview can be given
PreviewPages ==
  { [elements |-> es, files |-> fs] :
      es \in UNION {[1..n -> PreviewElements] : n \in 0..MaxPreviewElems},
      fs \in {<<>>, <<{}>>, <<FileIds>>} }

Call(op, args) ==
  [op |-> op, args |-> args, note |-> "", text |-> <<>>, line |-> 0]

\* a drawing call on something named: an image, or one side of an arrowhead
Named(call, note) == [call EXCEPT !.note = note]

\* outcome of drawing: the calls made, whether an exception was thrown, the
\* image decodes started
Drawn(ops) == [ops |-> ops, raised |-> FALSE, decodes |-> {}]

Raised == [ops |-> <<>>, raised |-> TRUE, decodes |-> {}]

\* a scaleElement that leaves the height as it is
scaleElementHeightKept(component, element) ==
  LET scale(field) == IF field = <<>> THEN <<>>
                      ELSE <<Scaled(field[1], component)>>
  IN [element EXCEPT !.x = scale(@), !.y = scale(@), !.width = scale(@),
                     !.height = IF @ = <<>> THEN <<>>
                                ELSE <<[num |-> @[1], den |-> 1]>>]

\* scaleElement(element): each of x, y, width, height that is there (typeof
\* number in PagePreview, `in` in NotebookCard) is multiplied by SCALE_FACTOR
scaleElement(component, element) ==
  LET scale(field) == IF field = <<>> THEN <<>>
                      ELSE <<Scaled(field[1], component)>>
  IN [element EXCEPT !.x = scale(@), !.y = scale(@), !.width = scale(@),
                     !.height = scale(@)]

\* ctx.measureText(line).width for a line of words joined by single spaces
measureText(line) ==
  LET RECURSIVE Sum(_)
      Sum(ws) == IF ws = <<>> THEN 0 ELSE Head(ws) + Sum(Tail(ws))
  IN Sum(line) + 5 * (Len(line) - 1)

\* metrics.width > scaledElement.width; false against undefined
Exceeds(px, maxWidth) ==
  maxWidth # <<>> /\ px * maxWidth[1].den > maxWidth[1].num

\* (element.fontSize || 20) * SCALE_FACTOR
scaledFontSize(component, element) ==
  Scaled(IF element.fontSize = <<>> \/ element.fontSize = <<0>>
           THEN DefaultFontSize ELSE element.fontSize[1], component)

\* a + b for fractions one of whose denominators divides the other
Plus(a, b) ==
  LET den == IF a.den >= b.den THEN a.den ELSE b.den
  IN [num |-> a.num * (den \div a.den) + b.num * (den \div b.den),
      den |-> den]

\* scaledFontSize * 1.2
LineHeight(size) == [num |-> 12 * size.num, den |-> 10 * size.den]

\* y + d for a y that is NaN when the element has no y
Below(y, d) == IF y[1].den = 0 THEN y ELSE <<Plus(y[1], d)>>

\* ctx.fillText(line, scaledElement.x, y), the k-th fillText of its text
FillText(line, x, y, k) ==
  [Call("fillText", <<x, y>>) EXCEPT !.text = line, !.line = k]

RECURSIVE WrapTextNoLastLine(_, _, _, _, _, _, _)
\* a word loop without the fillText after it
WrapTextNoLastLine(words, line, y, k, lineHeight, maxWidth, x) ==
  IF words = <<>> THEN <<>>
  ELSE LET word == Head(words)
           testLine == Append(line, word)
       IN IF Exceeds(measureText(testLine), maxWidth) /\ line # <<>>
            THEN <<FillText(line, x, y, k)>>
                   \o WrapTextNoLastLine(Tail(words), <<word>>,
                                         Below(y, lineHeight), k + 1,
                                         lineHeight, maxWidth, x)
            ELSE WrapTextNoLastLine(Tail(words), testLine, y, k, lineHeight,
                                    maxWidth, x)

RECURSIVE WrapText(_, _, _, _, _, _, _)
\* the word loop of case 'text' and the fillText after it: each fillText is
\* at the current y, which then moves down by scaledFontSize * 1.2
WrapText(words, line, y, k, lineHeight, maxWidth, x) ==
  IF words = <<>>
    THEN (IF line # <<>> THEN <<FillText(line, x, y, k)>> ELSE <<>>)
  ELSE LET word == Head(words)
           testLine == Append(line, word)
       IN IF Exceeds(measureText(testLine), maxWidth) /\ line # <<>>
            THEN <<FillText(line, x, y, k)>>
                   \o WrapText(Tail(words), <<word>>, Below(y, lineHeight),
                               k + 1, lineHeight, maxWidth, x)
            ELSE WrapText(Tail(words), testLine, y, k, lineHeight, maxWidth, x)

\* (element.x + relX) * SCALE_FACTOR; NaN when element.x is undefined
Coord(field, rel, component) ==
  IF field = <<>> THEN <<[num |-> 0, den |-> 0]>>
  ELSE <<Scaled(field[1] + rel, component)>>

\* head strokes for every arrow, whatever its end style
ArrowheadAnyStyle(element, x2, y2) ==
  IF element.type = "arrow"
    THEN <<Named(Call("line", <<x2, y2>>), "angle - arrowAngle"),
           Named(Call("line", <<x2, y2>>), "angle + arrowAngle")>>
    ELSE <<>>

\* if (element.type === 'arrow' && element.endArrowhead === 'arrow'): two
\* strokes of length 10 * SCALE_FACTOR from (x2, y2), at the shaft's angle
\* minus and plus pi / 6
Arrowhead(element, x2, y2) ==
  IF element.type = "arrow" /\ element.endArrowhead = <<"arrow">>
    THEN <<Named(Call("line", <<x2, y2>>), "angle - arrowAngle"),
           Named(Call("line", <<x2, y2>>), "angle + arrowAngle")>>
    ELSE <<>>

\* one pass of the forEach callback: the switch on element.type
DrawElement(component, element, files) ==
  LET scaledElement == scaleElement(component, element)
      box == <<scaledElement.x, scaledElement.y, scaledElement.width,
               scaledElement.height>>
  IN CASE element.type = "rectangle" -> Drawn(<<Call("rectangle", box)>>)
       [] element.type = "diamond" -> Drawn(<<Call("polygon", box)>>)
       [] element.type = "ellipse" -> Drawn(<<Call("ellipse", box)>>)
       [] element.type = "text" ->
            \* element.text.split(' ') throws on undefined
            IF element.text = <<>> THEN Raised
            ELSE LET size == scaledFontSize(component, element)
                     \* let y = scaledElement.y + scaledFontSize
                     y == IF scaledElement.y = <<>>
                            THEN <<[num |-> 0, den |-> 0]>>
                            ELSE <<Plus(scaledElement.y[1], size)>>
                 IN Drawn(WrapText(element.text[1], <<>>, y, 0,
                                   LineHeight(size), scaledElement.width,
                                   scaledElement.x))
       [] element.type \in {"line", "arrow"} ->
            \* const [relX1, relY1] = element.points[0] throws when points is
            \* undefined and when points[0] is
            IF element.points = <<>> \/ element.points[1] = <<>> THEN Raised
            ELSE LET first == element.points[1][1]
                     final == element.points[1][Len(element.points[1])]
                     x1 == Coord(element.x, first[1], component)
                     y1 == Coord(element.y, first[2], component)
                     x2 == Coord(element.x, final[1], component)
                     y2 == Coord(element.y, final[2], component)
                 IN Drawn(<<Call("line", <<x1, y1, x2, y2>>)>>
                            \o Arrowhead(element, x2, y2))
       [] element.type = "freedraw" ->
            IF element.points # <<>> /\ Len(element.points[1]) > 1
              THEN Drawn(<<Call("curve",
                     [i \in 1..Len(element.points[1]) |->
                        Coord(element.x, element.points[1][i][1],
                              component)])>>)
              ELSE Drawn(<<>>)
       [] element.type = "image" ->
            \* PagePreview: const { files } = page; NotebookCard:
            \* const { files = {} } = firstPage
            IF files = <<>> /\ component = "PagePreview" THEN Raised
            ELSE IF files # <<>> /\ element.fileId # <<>>
                    /\ element.fileId[1] \in files[1]
              THEN [ops |-> <<>>, raised |-> FALSE,
                    decodes |-> {[fileId |-> element.fileId[1], box |-> box]}]
              ELSE Drawn(<<>>)
       [] OTHER -> Drawn(<<>>)

\* the filter before the forEach: !element.isDeleted in PagePreview,
\* element.isDeleted === false in NotebookCard
Visible(component, elements) ==
  SelectSeq(elements, LAMBDA element :
    IF component = "PagePreview" THEN element.isDeleted # <<TRUE>>
    ELSE element.isDeleted = <<FALSE>>)

RECURSIVE DrawEach(_, _, _)
\* forEach: an exception ends the loop; what was drawn before it stays
DrawEach(component, elements, files) ==
  IF elements = <<>> THEN Drawn(<<>>)
  ELSE LET first == DrawElement(component, Head(elements), files)
       IN IF first.raised THEN first
          ELSE LET rest == DrawEach(component, Tail(elements), files)
               IN [ops |-> first.ops \o rest.ops, raised |-> rest.raised,
                   decodes |-> first.decodes \cup rest.decodes]

\* an onload that draws only while the depicted page still has the image
onloadWhileDepicted(cv, page, decode) ==
  IF page # <<>> /\ \E i \in 1..Len(page[1].elements) :
       /\ page[1].elements[i].type = "image"
       /\ page[1].elements[i].fileId = <<decode.fileId>>
    THEN Append(cv, Named(Call("drawImage", decode.box), decode.fileId))
    ELSE cv

\* img.onload: ctx.drawImage(img, x, y, width, height) on the canvas as it
\* is now; page is the page, if any, that the canvas depicts by then
onload(cv, page, decode) ==
  Append(cv, Named(Call("drawImage", decode.box), decode.fileId))

\* the render effect runs for a page: the canvas is cleared and the page's
\* elements are drawn.  An exception leaves the effect and unmounts the app.
DrawPreview ==
  /\ ~drawRaised
  /\ \E page \in PreviewPages :
       LET r == DrawEach(previewOf,
                         Visible(previewOf, page.elements), page.files)
       IN /\ canvas' = r.ops
          /\ decoding' = decoding \cup r.decodes
          /\ depicted' = <<page>>
          /\ drawRaised' = r.raised
  /\ UNCHANGED <<previewOf, appVars>>

\* an image finished decoding: its onload handler runs
ImageLoaded ==
  /\ \E decode \in decoding :
       /\ canvas' = onload(canvas, depicted, decode)
       /\ decoding' = decoding \ {decode}
  /\ UNCHANGED <<previewOf, depicted, drawRaised, appVars>>

\* ----------------------------------------------------------- the whole app
\* From a browser profile without legacy session data: startup, reload, the
\* dashboard and the editor's operations on the collection, with at most
\* AppMaxNotebooks notebooks of at most AppMaxPages pages.  (Page navigation
\* is exercised in SpecEditor, legacy data in SpecStartup.)
InitApp == Init /\ sessionLegacy = NoItem

Next ==
  \/ Startup
  \/ Reload
  \/ NotebookSelect
  \/ Back
  \/ (handleNotebookCreate /\ Len(notebooks) < AppMaxNotebooks)
  \/ handleNotebookDelete
  \/ (AddPage /\ Len(pages) < AppMaxPages)
  \/ handleDelete
  \/ handlePageMove
  \/ OnChange
  \/ timerExpired
  \/ (Tick /\ now < AppMaxTime)

Spec == InitApp /\ [][Next]_vars

\* ------------------------------------------- startup and the dashboard
\* Startups, reloads and the dashboard's operations on up to MaxNotebooks
\* notebooks; no notebook is opened.
NextStartup ==
  \/ Startup
  \/ Reload
  \/ handleNotebookCreate
  \/ handleNotebookDelete
  \/ Tick

SpecStartup == Init /\ [][NextStartup]_vars

\* the dashboard with notebooks opened and left
NextDashboard ==
  \/ NextStartup
  \/ NotebookSelect
  \/ Back

SpecDashboard == Init /\ [][NextDashboard]_vars

\* ------------------------------------------------ the editor on its own
\* A session that migrated a two-page legacy notebook at startup, created a
\* second notebook one tick later and opened it.
EditorCollection ==
  << [id |-> NotebookId(0), name |-> "My Notebook",
      pages |-> PagesFromJSON(
                  <<[id |-> PageId(1), elements |-> <<"rectangle">>,
                     appState |-> DefaultAppState, files |-> {}],
                    [id |-> PageId(2), elements |-> <<>>,
                     appState |-> DefaultAppState]>>),
      createdAt |-> 0, updatedAt |-> 0],
     [id |-> NotebookId(TickMs), name |-> "A", pages |-> <<INITIAL_PAGE>>,
      createdAt |-> TickMs, updatedAt |-> TickMs] >>

InitEditor ==
  /\ sessionLegacy = NoItem
  /\ localStore = Stringify(EditorCollection)
  /\ phase = "running"
  /\ notebooks = EditorCollection
  /\ selectedNotebookId = EditorCollection[2].id
  /\ currentPageIndex = 0
  /\ scene = pages[1].elements
  /\ handleChange = Debounced(pages, 0, notebooks, selectedNotebookId)
  /\ stale = {}
  /\ now = TickMs
  /\ lastWrite = "ok"
  /\ quotaBudget = 0
  /\ burst = NoBurst
  /\ last = Op("select", "")
  /\ NoCanvas

NextEditor ==
  \/ AddPage
  \/ handleDelete
  \/ handlePageMove
  \/ SelectPage
  \/ goToNextPage
  \/ goToPreviousPage
  \/ OnChange
  \/ timerExpired
  \/ Tick

SpecEditor == InitEditor /\ [][NextEditor]_vars

\* The editor with the browser's scheduling: the clock advances, and a timer
\* that is due runs its callback
SpecEditorLive ==
  InitEditor /\ [][NextEditor]_vars /\ WF_vars(Tick) /\ WF_vars(timerExpired)

\* A canvas of either component, on the dashboard of a running app
InitPreview ==
  /\ sessionLegacy = NoItem
  /\ localStore = Stringify(EditorCollection)
  /\ phase = "running"
  /\ notebooks = EditorCollection
  /\ selectedNotebookId = Null
  /\ currentPageIndex = 0
  /\ scene = <<>>
  /\ handleChange = NoHandler
  /\ stale = {}
  /\ now = TickMs
  /\ lastWrite = "ok"
  /\ quotaBudget = 0
  /\ burst = NoBurst
  /\ last = Op("startup", "loaded")
  /\ previewOf \in Components
  /\ canvas = <<>>
  /\ decoding = {}
  /\ depicted = <<>>
  /\ drawRaised = FALSE

NextPreview ==
  \/ DrawPreview
  \/ ImageLoaded

SpecPreview == InitPreview /\ [][NextPreview]_vars

\* ================================================================ properties
\* const currentPage = pages[currentPageIndex]: <<page>>, or <<>> when the
\* index is outside the array (undefined)
currentPage(ps, idx) == IF idx >= 0 /\ idx < Len(ps) THEN <<ps[idx + 1]>> ELSE <<>>

\* C1: under add, delete, reorder and commit, no notebook's page count drops
\* to zero.
C1_PageCountPositive ==
  \A i \in 1..Len(notebooks) : Len(notebooks[i].pages) >= 1

\* C2: in every reachable state the page ids of a notebook are pairwise
\* distinct.
C2_PageIdsDistinct ==
  \A n \in 1..Len(notebooks) :
    \A i, j \in 1..Len(notebooks[n].pages) :
      i # j => notebooks[n].pages[i].id # notebooks[n].pages[j].id

\* C3: handlePageMove keeps the active page active: when the moved page is
\* the active one the index follows it, when the page it is swapped with is
\* the active one the index follows that page, otherwise the index stays.
C3_MoveKeepsActivePage ==
  [][\A pageId \in PageIdArgs, direction \in Directions :
       (/\ EditorMounted
        /\ last'.name = "handlePageMove"
        /\ handlePageMoveCall(pageId, direction)) =>
         LET pageIndex == FindIndex(pages, pageId)
             newIndex == IF direction = "up" THEN pageIndex - 1
                         ELSE pageIndex + 1
             valid == pageIndex # -1 /\ newIndex >= 0 /\ newIndex < Len(pages)
         IN /\ currentPage(pages', currentPageIndex')
                 = currentPage(pages, currentPageIndex)
            /\ currentPage(pages', currentPageIndex') # <<>>
            /\ currentPageIndex' =
                 IF valid /\ pageIndex = currentPageIndex THEN newIndex
                 ELSE IF valid /\ newIndex = currentPageIndex THEN pageIndex
                 ELSE currentPageIndex]_vars

\* a page was swapped with the active page, and the index followed
C3_Witness ==
  /\ last = Op("handlePageMove", "sibling")
  /\ Len(pages) = 3
  /\ currentPageIndex = 1

\* C4 (as stated): N >= 1 change notifications, each less than 200 ms after
\* the one before and followed by quiescence, produce exactly one commit and
\* exactly one storage write, and the committed element list is the one of
\* the last notification.
C4_BurstCommitsOnce ==
  (burst.done /\ burst.rapid) =>
    /\ burst.commits = 1
    /\ burst.writes = 1
    /\ pages[currentPageIndex + 1].elements = burst.final
    /\ localStore = Stringify(notebooks)

\* C4 (amended): the same, for runs whose last notification carries an
\* element list that differs from the one stored for the active page.
C4_ChangingBurstCommitsOnce ==
  (burst.done /\ burst.rapid /\ ~burst.equal) =>
    /\ burst.commits = 1
    /\ burst.writes = 1
    /\ pages[currentPageIndex + 1].elements = burst.final
    /\ localStore = Stringify(notebooks)

\* two notifications 100 ms apart were committed 200 ms after the second
C4_Witness ==
  /\ burst.done /\ burst.rapid /\ ~burst.equal
  /\ burst.n = 2
  /\ burst.first < burst.due - DebounceWait
  /\ last = Op("commit", "changed")

\* C5: a notification whose element list equals the one stored for the
\* active page commits nothing: the collection is unchanged and nothing is
\* written.
C5_EqualNotificationNoCommit ==
  [][(/\ EditorMounted
      /\ last'.name = "commit"
      /\ handleChange.lastArgs # <<>>
      /\ handleChange.lastArgs[1].elements
           = pages[currentPageIndex + 1].elements
      /\ timerExpired) =>
        UNCHANGED <<notebooks, localStore, lastWrite, currentPageIndex>>]_vars

\* the debounce fired for a notification equal to the stored list
C5_Witness ==
  /\ last = Op("commit", "equal")
  /\ burst.done /\ burst.equal
  /\ burst.commits = 0

\* C6: a commit still pending when the editor is left (Back) is cancelled:
\* no timer survives, and the collection and the storage stay as they are
\* for as long as the user does nothing else.
C6_TeardownCancelsCommit ==
  /\ [](burst.torn => Timers = {})
  /\ [][(burst.torn /\ burst'.torn) =>
          UNCHANGED <<notebooks, localStore, lastWrite>>]_vars

\* the editor was left with a pending commit and its deadline has passed
C6_Witness ==
  /\ burst.torn
  /\ burst.n >= 1 /\ ~burst.equal
  /\ now >= burst.due
  /\ last = Op("back", "")

C8_StoreHoldsCollection ==
  (phase = "running" /\ lastWrite = "ok") => localStore = Stringify(notebooks)

\* an edit of one of two notebooks was committed and written
C8_Witness ==
  /\ last = Op("commit", "changed")
  /\ lastWrite = "ok"
  /\ Len(notebooks) = 2
  /\ localStore = Stringify(notebooks)

\* C9: handleDelete on a notebook of exactly one page does nothing: pages,
\* active index and updatedAt stay, onPagesChange is not called, nothing is
\* written.
C9_DeleteLastPageNoOp ==
  [][\A deletionId \in PageIdArgs :
       (/\ EditorMounted
        /\ Len(pages) = 1
        /\ last'.name = "handleDelete"
        /\ handleDeleteCall(deletionId)) =>
         UNCHANGED <<notebooks, currentPageIndex, localStore, lastWrite,
                     phase, handleChange>>]_vars

\* handleDelete returned at its length guard on a one-page notebook
C9_Witness ==
  /\ last = Op("handleDelete", "guarded")
  /\ Len(pages) = 1
  /\ phase = "running"

\* C10: a handleDelete that removes a page adjusts the active index: a page
\* before the active one lowers it by one and the same page stays active, a
\* page after it leaves it, the active page itself sets it to
\* min(old index, new length - 1).
C10_DeleteAdjustsIndex ==
  [][\A deletionId \in PageIdArgs :
       (/\ EditorMounted
        /\ Len(pages) > 1
        /\ FindIndex(pages, deletionId) # -1
        /\ last'.name = "handleDelete"
        /\ handleDeleteCall(deletionId)) =>
         LET deletionPageIndex == FindIndex(pages, deletionId)
         IN IF deletionPageIndex < currentPageIndex
              THEN /\ currentPageIndex' = currentPageIndex - 1
                   /\ currentPage(pages', currentPageIndex')
                        = currentPage(pages, currentPageIndex)
            ELSE IF deletionPageIndex > currentPageIndex
              THEN currentPageIndex' = currentPageIndex
            ELSE currentPageIndex' =
                   Min(currentPageIndex, Len(pages') - 1)]_vars

\* C11: startup with text that is not valid JSON under the primary key and
\* no legacy key starts with an empty notebook list on the dashboard; no
\* error state is entered.
C11_CorruptStoreStartsEmpty ==
  [][(/\ phase = "boot"
      /\ sessionLegacy = NoItem
      /\ localStore = Garbage
      /\ Startup) =>
        /\ notebooks' = <<>>
        /\ phase' = "running"
        /\ selectedNotebookId' = Null
        /\ ~EditorMounted']_vars

\* the app runs on the dashboard with an empty list while the primary key
\* still holds the corrupt text (the first persist write failed)
C11_Witness ==
  /\ last = Op("startup", "loaded")
  /\ Dashboard
  /\ notebooks = <<>>
  /\ sessionLegacy = NoItem
  /\ localStore = Garbage

\* C12: a storage write that fails after a mutation is absorbed: the
\* collection in memory has the mutated value, the stored value is the one
\* from before the write, and the app keeps running with its operations
\* enabled.
C12_FailedWriteAbsorbed ==
  [][(/\ phase = "running"
      /\ lastWrite' = "failed"
      /\ quotaBudget' < quotaBudget) =>
        /\ localStore' = localStore
        /\ phase' = "running"
        /\ Dashboard' \/ EditorMounted'
        /\ CASE last'.name = "create" ->
                   /\ Len(notebooks') = Len(notebooks) + 1
                   /\ SubSeq(notebooks', 1, Len(notebooks)) = notebooks
             [] last'.name = "deleteNotebook" ->
                   \E i \in 1..Len(notebooks) :
                      notebooks' = FilterOutId(notebooks, notebooks[i].id)
             [] last'.name = "addPage" ->
                   /\ Len(pages') = Len(pages) + 1
                   /\ SubSeq(pages', 1, Len(pages)) = pages
             [] last'.name = "handleDelete" ->
                   \E id \in PageIdArgs :
                      /\ pages' = FilterOutId(pages, id)
                      /\ pages' # pages
             [] last'.name = "handlePageMove" ->
                   \E i \in 1..(Len(pages) - 1) :
                      pages' = [pages EXCEPT ![i] = pages[i + 1],
                                             ![i + 1] = pages[i]]
             [] last'.name = "commit" ->
                   /\ burst'.final # pages[currentPageIndex + 1].elements
                   /\ pages'[currentPageIndex + 1].elements = burst'.final
             [] OTHER -> FALSE]_vars

\* a committed edit is in memory while the storage still holds the older
\* collection, and the editor is still mounted
C12_Witness ==
  /\ last = Op("commit", "changed")
  /\ lastWrite = "failed"
  /\ EditorMounted
  /\ localStore # Stringify(notebooks)

\* C17 as stated: a committed notification stores in the active page the
\* element list, the view state and the file mapping it carried
C17_CommitStoresNotification ==
  [][(/\ last'.name = "commit"
      /\ last'.effect = "changed"
      /\ stale = {}
      /\ handleChange.lastArgs # <<>>
      /\ timerExpired)
       => LET args == handleChange.lastArgs[1]
              page == notebooks'[FindNotebook(notebooks',
                                   handleChange.selectedNotebookId)]
                        .pages[handleChange.currentPageIndex + 1]
          IN /\ page.elements = args.elements
             /\ page.appState = <<args.appState>>
             /\ page.files = <<args.files>>]_vars

\* C18 as stated: handleNotebookCreate(name) appends exactly one notebook,
\* with the given name, one page 'page-1' without elements and createdAt equal
\* to updatedAt; the notebooks before it and the selection are unchanged
C18_CreateAppendsOne ==
  [][(last'.name = "create" /\ handleNotebookCreate) =>
       /\ Len(notebooks') = Len(notebooks) + 1
       /\ SubSeq(notebooks', 1, Len(notebooks)) = notebooks
       /\ selectedNotebookId' = selectedNotebookId
       /\ LET newNotebook == notebooks'[Len(notebooks')]
          IN /\ newNotebook.name \in Names
             /\ Len(newNotebook.pages) = 1
             /\ newNotebook.pages[1].id = PageId(1)
             /\ newNotebook.pages[1].elements = <<>>
             /\ newNotebook.createdAt = newNotebook.updatedAt]_vars

\* C19 as stated: the move button of the page at position k exchanges that
\* page with its neighbour in the direction and leaves the others in place;
\* first page up, last page down and an id that is not in the list change
\* neither the pages nor the active index and call no onPagesChange
C19_MoveSwapsNeighbours ==
  [][/\ \A k \in 1..MaxPages, direction \in Directions :
          (/\ last'.name = "handlePageMove"
           /\ EditorMounted
           /\ k <= Len(pages)
           /\ handlePageMoveCall(pages[k].id, direction))
            => LET n == IF direction = "up" THEN k - 1 ELSE k + 1
               IN IF n \in 1..Len(pages)
                    THEN pages' = [pages EXCEPT ![k] = pages[n],
                                                ![n] = pages[k]]
                    ELSE /\ notebooks' = notebooks
                         /\ currentPageIndex' = currentPageIndex
     /\ \A pageId \in PageIdArgs, direction \in Directions :
          (/\ last'.name = "handlePageMove"
           /\ EditorMounted
           /\ \A k \in 1..Len(pages) : pages[k].id # pageId
           /\ handlePageMoveCall(pageId, direction))
            => /\ notebooks' = notebooks
               /\ currentPageIndex' = currentPageIndex]_vars

\* C20 as stated: whenever a select, next, previous, add, delete or reorder
\* changes the page at the active index, the drawing surface is
\* re-initialised: its scene is the element list of that page
C20_SceneIsActivePage ==
  [][(/\ last'.name \in {"setCurrentPageIndex", "addPage", "handleDelete",
                         "handlePageMove"}
      /\ \/ SelectPage
         \/ goToNextPage
         \/ goToPreviousPage
         \/ AddPage
         \/ handleDelete
         \/ handlePageMove
      /\ phase' = "running"
      /\ currentPage(pages, currentPageIndex)
           # currentPage(pages', currentPageIndex'))
       => scene' = currentPage(pages', currentPageIndex')[1].elements]_vars

\* C21 as stated: while a notebook is open the active index is a valid index
\* into its page list
C21_ActiveIndexValid ==
  selectedNotebook(notebooks, selectedNotebookId) # 0
    => currentPageIndex \in 0..(Len(pages) - 1)

\* the current debounced function holds a notification whose element list
\* differs from the stored one, and its wait ends within the modelled time
PendingChange ==
  /\ EditorMounted
  /\ handleChange.lastArgs # <<>>
  /\ handleChange.lastCallTime + DebounceWait <= MaxTime
  /\ currentPage(pages, currentPageIndex) # <<>>
  /\ handleChange.lastArgs[1].elements
       # pages[currentPageIndex + 1].elements

\* a further notification has followed: one with the stored element list, or
\* one whose wait ends after the modelled time
FurtherPending ==
  /\ EditorMounted
  /\ handleChange.lastArgs # <<>>
  /\ currentPage(pages, currentPageIndex) # <<>>
  /\ \/ handleChange.lastArgs[1].elements
          = pages[currentPageIndex + 1].elements
     \/ handleChange.lastCallTime + DebounceWait > MaxTime

\* C22 as stated: a notification whose element list differs from the stored
\* one is eventually committed, unless a further notification follows it,
\* whatever the user does in between
C22_ChangeEventuallyCommitted ==
  PendingChange ~> (last = Op("commit", "changed") \/ FurtherPending)

\* C23 as stated: the delete button of the page at position k, on a notebook
\* of more than one page, removes that page and no other: the count drops by
\* one and the other pages stay, in their order
C23_DeleteRemovesOne ==
  [][\A k \in 1..MaxPages :
       (/\ last'.name = "handleDelete"
        /\ EditorMounted
        /\ k <= Len(pages)
        /\ Len(pages) > 1
        /\ handleDeleteCall(pages[k].id))
         => /\ Len(pages') = Len(pages) - 1
            /\ pages' = SubSeq(pages, 1, k - 1)
                          \o SubSeq(pages, k + 1, Len(pages))]_vars

\* C24: a committed edit changes only the page at the active index of the
\* selected notebook: that page keeps its id, the other pages of the notebook
\* keep content and position, the page count is unchanged, and every other
\* notebook is unchanged
C24_CommitChangesActivePageOnly ==
  [][(/\ last'.name = "commit"
      /\ last'.effect = "changed"
      /\ EditorMounted
      /\ timerExpired)
       => LET n == selectedNotebook(notebooks, selectedNotebookId)
          IN /\ Len(notebooks') = Len(notebooks)
             /\ \A m \in 1..Len(notebooks) :
                  m # n => notebooks'[m] = notebooks[m]
             /\ notebooks'[n].id = notebooks[n].id
             /\ Len(pages') = Len(pages)
             /\ \A i \in 1..Len(pages) :
                  i # currentPageIndex + 1 => pages'[i] = pages[i]
             /\ pages'[currentPageIndex + 1].id
                  = pages[currentPageIndex + 1].id
             /\ pages'[currentPageIndex + 1] # pages[currentPageIndex + 1]
             /\ UNCHANGED <<selectedNotebookId, currentPageIndex>>]_vars

\* an edit was committed to the second page of a notebook, with another
\* notebook in the collection
C24_Witness ==
  /\ last = Op("commit", "changed")
  /\ phase = "running"
  /\ Len(notebooks) >= 2
  /\ selectedNotebookId # Null
  /\ currentPageIndex = 1
  /\ Len(pages) >= 2
  /\ pages[2].elements # <<>>

\* C25 as stated: a startup with a legacy session key and a non-empty stored
\* collection keeps every stored notebook, in the collection and in storage
C25_MigrationKeepsStored ==
  [][(/\ phase = "boot"
      /\ sessionLegacy # NoItem
      /\ localStore.kind = "text"
      /\ localStore.json # <<>>
      /\ Startup)
       => LET before == ParseNotebooks(localStore)
          IN /\ localStore'.kind = "text"
             /\ \A i \in 1..Len(before) :
                  /\ \E j \in 1..Len(notebooks') : notebooks'[j] = before[i]
                  /\ \E j \in 1..Len(localStore'.json) :
                       localStore'.json[j] = localStore.json[i]]_vars

\* C28: when the legacy key cannot be parsed, or the write of the migrated
\* collection fails, startup loads the collection stored under the primary
\* key as it is: no notebook is made up, and the stored collection is neither
\* overwritten nor lost.  (A startup uses up one quota failure for a failed
\* persist write, visible in lastWrite', and one for a failed migration
\* write.)
C28_FailedMigrationFallsBack ==
  [][(/\ phase = "boot"
      /\ localStore.kind = "text"
      /\ \/ sessionLegacy = Garbage
         \/ /\ sessionLegacy.kind = "text"
            /\ quotaBudget - quotaBudget'
                 = 1 + (IF lastWrite' = "failed" THEN 1 ELSE 0)
      /\ Startup)
       => /\ notebooks' = ParseNotebooks(localStore)
          /\ localStore' = localStore
          /\ phase' = "running"]_vars

\* the app started from the stored notebook while the legacy key holds
\* text that does not parse
C28_Witness ==
  /\ last = Op("startup", "loaded")
  /\ phase = "running"
  /\ sessionLegacy = Garbage
  /\ Len(notebooks) = 1
  /\ notebooks[1].name = "A"
  /\ localStore = Stringify(notebooks)

\* C26: a page mutation (add, delete, reorder, committed edit) replaces the
\* pages and sets updatedAt to the current time on the selected notebook
\* only; createdAt never changes, updatedAt >= createdAt for every notebook,
\* the other notebooks are unchanged, and with no notebook selected
\* handlePagesChange changes nothing
C26_PagesChangeStampsSelected ==
  /\ [](\A m \in 1..Len(notebooks) :
          notebooks[m].updatedAt >= notebooks[m].createdAt)
  /\ [](handlePagesChange(notebooks, Null, <<INITIAL_PAGE>>, now) = notebooks)
  /\ [][(/\ EditorMounted
          /\ last'.name \in {"addPage", "handleDelete", "handlePageMove",
                             "commit"}
          /\ notebooks' # notebooks)
         => LET n == selectedNotebook(notebooks, selectedNotebookId)
            IN /\ Len(notebooks') = Len(notebooks)
               /\ \A m \in 1..Len(notebooks) :
                    m # n => notebooks'[m] = notebooks[m]
               /\ notebooks'[n] = [notebooks[n] EXCEPT !.pages = pages',
                                                       !.updatedAt = now]
               /\ notebooks'[n].createdAt = notebooks[n].createdAt]_vars

\* a page mutation stamped the open notebook later than its creation and
\* left the other notebook's stamps alone
C26_Witness ==
  /\ EditorMounted
  /\ last.name \in {"addPage", "handleDelete", "handlePageMove", "commit"}
  /\ Len(notebooks) = 2
  /\ notebooks[2].id = selectedNotebookId
  /\ notebooks[2].updatedAt = now
  /\ notebooks[2].updatedAt > notebooks[2].createdAt
  /\ notebooks[1] = EditorCollection[1]

\* C27: handleNotebookDelete(id) removes the notebook with that id and leaves
\* the others unchanged and in order; the selection becomes null if it was
\* that notebook; in every state the selected id is null or the id of a
\* notebook in the collection
C27_NotebookDeleteFrame ==
  /\ [](selectedNotebookId = Null
          \/ selectedNotebook(notebooks, selectedNotebookId) # 0)
  /\ [][(last'.name = "deleteNotebook" /\ handleNotebookDelete)
         => \E i \in 1..Len(notebooks) :
              /\ notebooks' = SubSeq(notebooks, 1, i - 1)
                                \o SubSeq(notebooks, i + 1, Len(notebooks))
              /\ \A j \in 1..Len(notebooks') :
                   notebooks'[j].id # notebooks[i].id
              /\ selectedNotebookId' =
                   IF selectedNotebookId = notebooks[i].id
                     THEN Null ELSE selectedNotebookId]_vars

\* of two notebooks the earlier one was deleted: the one created in this
\* session remains, and nothing is selected
C27_Witness ==
  /\ last = Op("deleteNotebook", "")
  /\ phase = "running"
  /\ selectedNotebookId = Null
  /\ Len(notebooks) = 1
  /\ notebooks[1].name # "My Notebook"
  /\ notebooks[1].id # NotebookId(0)

\* ------------------------------------------------------- preview renderers

\* the calls of one kind on a canvas, in drawing order
CallsOf(op, cv) == SelectSeq(cv, LAMBDA c : c.op = op)

\* the elements of one of the given types that carry isDeleted = false
NonDeleted(types, page) ==
  SelectSeq(page.elements,
            LAMBDA e : e.isDeleted = <<FALSE>> /\ e.type \in types)

\* a finished draw of a page all of whose elements say whether they are
\* deleted
DrawnWhole ==
  /\ depicted # <<>>
  /\ ~drawRaised
  /\ \A i \in 1..Len(depicted[1].elements) :
       depicted[1].elements[i].isDeleted # <<>>

\* C13 as stated: the preview renderer never raises, whatever the element
\* list
C13_NeverRaises == ~drawRaised

RECURSIVE C14_Segments(_, _)
\* the line calls are, element by element, a shaft from the first to the last
\* point, followed for an arrow with endArrowhead 'arrow' by two strokes that
\* start at the shaft's end, and by nothing otherwise
C14_Segments(lines, elems) ==
  IF elems = <<>> THEN lines = <<>>
  ELSE LET e == Head(elems)
           n == IF e.type = "arrow" /\ e.endArrowhead = <<"arrow">>
                  THEN 3 ELSE 1
           pts == e.points[1]
           end(v, rel) == <<[num |-> (v + rel) * SCALE_FACTOR(previewOf).num,
                             den |-> ReferenceWidth]>>
       IN /\ Len(lines) >= n
          /\ lines[1].args = <<end(e.x[1], pts[1][1]), end(e.y[1], pts[1][2]),
                               end(e.x[1], pts[Len(pts)][1]),
                               end(e.y[1], pts[Len(pts)][2])>>
          /\ n = 3 =>
               /\ \A k \in 2..3 :
                    /\ Len(lines[k].args) = 2
                    /\ lines[k].args[1] = lines[1].args[3]
                    /\ lines[k].args[2] = lines[1].args[4]
               /\ lines[2] # lines[3]
          /\ C14_Segments(SubSeq(lines, n + 1, Len(lines)), Tail(elems))

\* C14: a non-deleted arrow with endArrowhead = 'arrow' emits exactly three
\* line segments, the shaft and two head strokes starting at the shaft's
\* end; a line, or an arrow with another end style, emits exactly one
C14_ArrowSegments ==
  DrawnWhole =>
    C14_Segments(CallsOf("line", canvas),
                 NonDeleted({"line", "arrow"}, depicted[1]))

C14_Witness ==
  /\ DrawnWhole
  /\ Len(CallsOf("line", canvas)) = 4
  /\ \E i, j \in 1..Len(depicted[1].elements) :
       /\ depicted[1].elements[i].type = "arrow"
       /\ depicted[1].elements[i].endArrowhead = <<"arrow">>
       /\ depicted[1].elements[j].type = "arrow"
       /\ depicted[1].elements[j].endArrowhead = <<"triangle">>

\* v * thumbnail width / 595, as the fraction it is
C15_Times(v, q) ==
  q # <<>> /\ q[1].num * ReferenceWidth
                = v * SCALE_FACTOR(previewOf).num * q[1].den

\* a fraction rounded to tenths, in tenths
C15_Tenths(q) == (20 * q.num + q.den) \div (2 * q.den)

\* C15: every numeric x, y, width and height of a drawn rectangle is
\* multiplied by thumbnail width / 595; with width 240 the rectangle at
\* (100, 100, 50, 50) is drawn at about 40.3 and 20.2
C15_ScaleLaw ==
  DrawnWhole =>
    LET rects == CallsOf("rectangle", canvas)
        elems == NonDeleted({"rectangle"}, depicted[1])
        box(e) == <<e.x, e.y, e.width, e.height>>
    IN /\ Len(rects) = Len(elems)
       /\ \A i \in 1..Len(elems) : \A f \in 1..4 :
            /\ box(elems[i])[f] = <<>> => rects[i].args[f] = <<>>
            /\ box(elems[i])[f] # <<>> =>
                 C15_Times(box(elems[i])[f][1], rects[i].args[f])
            /\ (previewOf = "NotebookCard" /\ box(elems[i])[f] = <<100>>)
                 => C15_Tenths(rects[i].args[f][1]) = 403
            /\ (previewOf = "NotebookCard" /\ box(elems[i])[f] = <<50>>)
                 => C15_Tenths(rects[i].args[f][1]) = 202

C15_Witness ==
  /\ DrawnWhole
  /\ previewOf = "NotebookCard"
  /\ \E i \in 1..Len(canvas) :
       /\ canvas[i].op = "rectangle"
       /\ canvas[i].args[4] # <<>>
       /\ C15_Tenths(canvas[i].args[1][1]) = 403
       /\ C15_Tenths(canvas[i].args[4][1]) = 202

\* C16: a decode that completes draws its image onto the canvas whatever the
\* canvas depicts by then
C16_StaleImageStillDrawn ==
  [][ImageLoaded =>
       /\ Len(canvas') = Len(canvas) + 1
       /\ canvas'[Len(canvas')].op = "drawImage"]_vars

\* the canvas shows an image that the page it depicts does not have
C16_Witness ==
  /\ depicted # <<>>
  /\ ~drawRaised
  /\ \A i \in 1..Len(depicted[1].elements) :
       depicted[1].elements[i].type # "image"
  /\ \E i \in 1..Len(canvas) : canvas[i].op = "drawImage"

\* C29 as stated: PagePreview and NotebookCard select the same elements of a
\* page, exactly those that are not deleted; on the canvas, the rectangles
\* drawn are the page's rectangles that are not deleted
C29_SameElementsDrawn ==
  (depicted # <<>> /\ ~drawRaised) =>
    LET elements == depicted[1].elements
        notDeleted == SelectSeq(elements, LAMBDA e : e.isDeleted # <<TRUE>>)
    IN /\ Visible("PagePreview", elements) = Visible("NotebookCard", elements)
       /\ Visible(previewOf, elements) = notDeleted
       /\ Len(CallsOf("rectangle", canvas))
            = Len(SelectSeq(notDeleted, LAMBDA e : e.type = "rectangle"))

\* the texts of a page that the component draws
DrawnTexts(component, page) ==
  SelectSeq(Visible(component, page.elements), LAMBDA e : e.type = "text")

\* where the fillText calls of the j-th drawn text begin among the calls
TextStart(calls, j) ==
  LET starts == {i \in 1..Len(calls) : calls[i].line = 0}
  IN IF j > Cardinality(starts) THEN Len(calls) + 1
     ELSE CHOOSE i \in starts : Cardinality({s \in starts : s < i}) = j - 1

\* the fillText calls of the j-th drawn text
TextCalls(calls, j) ==
  SubSeq(calls, TextStart(calls, j), TextStart(calls, j + 1) - 1)

RECURSIVE JoinLines(_)
\* the words of the lines of some fillText calls, in order
JoinLines(calls) ==
  IF calls = <<>> THEN <<>> ELSE Head(calls).text \o JoinLines(Tail(calls))

\* y + scaledFontSize + k * 1.2 * scaledFontSize in 5950ths of a pixel, for
\* an element at y with font size fs
C30_Baseline(component, y, fs, k) ==
  (10 * y + 10 * fs + 12 * k * fs) * SCALE_FACTOR(component).num

\* C30: a finished draw emits, for every drawn text, lines whose words in
\* order are the words of the text (no word lost or duplicated); every line
\* fits the scaled width or is a single word; and line k is drawn at baseline
\* y + scaledFontSize + k * 1.2 * scaledFontSize
C30_WrapKeepsWords ==
  (depicted # <<>> /\ ~drawRaised) =>
    LET texts == DrawnTexts(previewOf, depicted[1])
        calls == CallsOf("fillText", canvas)
    IN /\ Cardinality({i \in 1..Len(calls) : calls[i].line = 0}) = Len(texts)
       /\ \A j \in 1..Len(texts) :
            LET e == texts[j]
                lines == TextCalls(calls, j)
                fs == IF e.fontSize = <<>> THEN DefaultFontSize
                      ELSE e.fontSize[1]
            IN /\ JoinLines(lines) = e.text[1]
               /\ \A n \in 1..Len(lines) :
                    /\ lines[n].line = n - 1
                    /\ \/ Len(lines[n].text) = 1
                       \/ ~Exceeds(measureText(lines[n].text),
                                   scaleElement(previewOf, e).width)
                    /\ lines[n].args[2][1].den \in {595, 5950}
                    /\ lines[n].args[2][1].num
                         * (5950 \div lines[n].args[2][1].den)
                       = C30_Baseline(previewOf, e.y[1], fs, n - 1)

\* a finished draw of a text wrapped into a two-word line followed by two
\* more lines
C30_Witness ==
  /\ depicted # <<>>
  /\ ~drawRaised
  /\ \E i \in 1..Len(canvas) :
       /\ i + 2 <= Len(canvas)
       /\ canvas[i].op = "fillText" /\ canvas[i].line = 0
       /\ Len(canvas[i].text) = 2
       /\ canvas[i + 1].op = "fillText" /\ canvas[i + 1].line = 1
       /\ Len(canvas[i + 1].text) = 1
       /\ canvas[i + 2].op = "fillText" /\ canvas[i + 2].line = 2

====
